---- MODULE Spec2Model ----
(***************************************************************************)
(* Model of the log-ingestion pipeline:                                    *)
(*   ingest-api/main.py        ingest_data            (POST /ingest)       *)
(*   processor-worker/worker.py process_pubsub_message (POST /, Pub/Sub    *)
(*                                                      push endpoint)     *)
(* The broker (Pub/Sub, at-least-once push with redelivery on a response   *)
(* that is not a success) and the document store (Firestore, per-path      *)
(* set() with a server-assigned timestamp) are the environment.            *)
(***************************************************************************)
EXTENDS Integers, Sequences, FiniteSets, TLC

\* ------------------------------------------------------------------ bounds
\* requests made over one behaviour: calls of ingest_data, and messages
\* published to the topic by others
MaxRequests == 2

\* ------------------------------------------------------------ python values
\* Python's None; also what dict.get returns for an absent key.
None == "<None>"

\* A Python str used as text is a sequence of characters; "sz" stands for the
\* sharp s, whose upper case is two characters long.
SampleTexts == {<<"a", "sz">>, <<"!">>}
PyStr(s) == [isStr |-> TRUE, chars |-> s]
\* a JSON value that is not a string (a number): it has no len()
PyInt == [isStr |-> FALSE, chars |-> <<>>]

\* truthiness of None / str identifiers
Truthy(v) == v \notin {None, ""}

\* dict.get(k, default)
Get(d, k, default) == IF k \in DOMAIN d THEN d[k] ELSE default

\* one-key dict when the optional value is present, the empty dict otherwise
Field(k, opt) == [kk \in {k : v \in opt} |-> CHOOSE v \in opt : TRUE]
Opt(S) == {{}} \cup {{v} : v \in S}

\* str.upper(), character by character
UpperChar(c) ==
    CASE c = "a" -> <<"A">>
      [] c = "sz" -> <<"S", "S">>
      [] OTHER -> <<c>>

RECURSIVE Upper(_)
Upper(s) == IF s = <<>> THEN <<>> ELSE UpperChar(Head(s)) \o Upper(Tail(s))

\* ------------------------------------------------------------ wire encoding
\* json.dumps(...): a JSON text; json.loads raises on a text that is not JSON
JsonDumps(value) == [json |-> TRUE, value |-> value]
BadJsonText == [json |-> FALSE]
\* str.encode("utf-8") / bytes.decode("utf-8")
Utf8Encode(text) == [utf8 |-> TRUE, text |-> text]
BadUtf8Bytes == [utf8 |-> FALSE]
\* base64 of the bytes, as the broker puts them in message.data
Base64Encode(bytes) == [b64 |-> TRUE, bytes |-> bytes]
BadBase64 == [b64 |-> FALSE]

\* JSON values: an object (dict) or something that is not a mapping
JsonObject(obj) == [ty |-> "object", obj |-> obj]
JsonArray == [ty |-> "array"]

\* the push envelope the broker builds around published bytes
PushEnvelope(bytes) == [kind |-> "message", data |-> Base64Encode(bytes)]

\* ------------------------------------------------------------- submissions
TenantIds == {"A", "B"}
ClientLogIds == {"l1"}

\* content-type header, as the set of media types it contains
CT_JSON == {"application/json"}
CT_TEXT == {"text/plain"}
CT_OTHER == {}

\* JSON objects a client sends: the well-formed ones, and one object for each
\* way of departing from them
GoodObjects ==
    { Field("tenant_id", {"A"}) @@ Field("text", {PyStr(x)}) : x \in SampleTexts }
    \cup { Field("tenant_id", {t}) @@ Field("text", {PyStr(<<"a", "sz">>)}) : t \in TenantIds }
    \cup { Field("tenant_id", {"A"}) @@ Field("text", {PyStr(<<"a", "sz">>)})
           @@ Field("log_id", {l}) : l \in ClientLogIds }
OddObjects ==
    { Field("text", {PyStr(<<"a", "sz">>)}),
      Field("tenant_id", {"A"}),
      Field("tenant_id", {""}) @@ Field("text", {PyStr(<<"a", "sz">>)}),
      Field("tenant_id", {"A"}) @@ Field("text", {PyInt}),
      Field("tenant_id", {"A"}) @@ Field("text", {PyStr(<<"a", "sz">>)})
          @@ Field("source", {"client"}) }

JsonBodies ==
    {[parsed |-> FALSE]} \cup {[parsed |-> TRUE, value |-> JsonArray]} \cup
    { [parsed |-> TRUE, value |-> JsonObject(obj)] : obj \in GoodObjects \cup OddObjects }

TextBodies == {Utf8Encode(<<"a", "sz">>), BadUtf8Bytes}

Submissions ==
    { [ctype |-> CT_JSON, x_tenant_id |-> None, body |-> b] : b \in JsonBodies } \cup
    { [ctype |-> CT_TEXT, x_tenant_id |-> h, body |-> b] :
        h \in {None, "", "B"}, b \in TextBodies } \cup
    { [ctype |-> CT_OTHER, x_tenant_id |-> None, body |-> BadUtf8Bytes] }

\* ------------------------------------------------------------------- state
VARIABLES
    publisher,     \* main.py: the Pub/Sub client was initialised (else None)
    db,            \* worker.py: the Firestore client was initialised (else None)
    queue,         \* broker: envelopes confirmed and not yet acknowledged
    nRequests,     \* requests made so far
    inflight,      \* worker: the attempts that are in time.sleep
    attempted,     \* envelopes delivered at least once
    store,         \* Firestore: document path -> fields
    clock,         \* Firestore: server time, as the number of commits so far
    lastIngest,    \* response of the last ingest_data call
    lastDelivery   \* response of the last finished process_pubsub_message call

vars == <<publisher, db, queue, nRequests, inflight, attempted, store, clock,
          lastIngest, lastDelivery>>

NoIngest == [status |-> 0, detail |-> "", publish |-> "none"]
NoDelivery == [env |-> [kind |-> "none"], status |-> 0, body |-> "", wrote |-> FALSE,
               first |-> FALSE, rewrote |-> FALSE]

Init ==
    /\ publisher \in BOOLEAN
    /\ db \in BOOLEAN
    /\ queue = {}
    /\ nRequests = 0
    /\ inflight = {}
    /\ attempted = {}
    /\ store = <<>>
    /\ clock = 0
    /\ lastIngest = NoIngest
    /\ lastDelivery = NoDelivery

\* ------------------------------------------------------------ ingest_data
HttpError(code, detail) == [ok |-> FALSE, status |-> code, detail |-> detail]
Normalized(payload) == [ok |-> TRUE, payload |-> payload]

\* a missing text is taken as the empty text
NormalizeJsonLenient(body) ==
    IF ~body.parsed THEN HttpError(400, "Invalid JSON")
    ELSE IF body.value.ty # "object" THEN HttpError(400, "Invalid JSON")
    ELSE LET obj == body.value.obj IN
         IF "tenant_id" \notin DOMAIN obj
         THEN HttpError(400, "Invalid JSON")
         ELSE Normalized([tenant_id |-> obj["tenant_id"],
                          log_id |-> Get(obj, "log_id", "generated-id"),
                          text |-> Get(obj, "text", PyStr(<<>>)),
                          source |-> "json_upload"])

\* a missing log_id is replaced by an id that differs from text to text
NormalizeJsonFreshId(body) ==
    IF ~body.parsed THEN HttpError(400, "Invalid JSON")
    ELSE IF body.value.ty # "object" THEN HttpError(400, "Invalid JSON")
    ELSE LET obj == body.value.obj IN
         IF "tenant_id" \notin DOMAIN obj \/ "text" \notin DOMAIN obj
         THEN HttpError(400, "Invalid JSON")
         ELSE Normalized([tenant_id |-> obj["tenant_id"],
                          log_id |-> Get(obj, "log_id", <<"generated-id", obj["text"]>>),
                          text |-> obj["text"],
                          source |-> "json_upload"])

\* the source named in the body is kept
NormalizeJsonKeepsSource(body) ==
    IF ~body.parsed THEN HttpError(400, "Invalid JSON")
    ELSE IF body.value.ty # "object" THEN HttpError(400, "Invalid JSON")
    ELSE LET obj == body.value.obj IN
         IF "tenant_id" \notin DOMAIN obj \/ "text" \notin DOMAIN obj
         THEN HttpError(400, "Invalid JSON")
         ELSE Normalized([tenant_id |-> obj["tenant_id"],
                          log_id |-> Get(obj, "log_id", "generated-id"),
                          text |-> obj["text"],
                          source |-> Get(obj, "source", "json_upload")])

\* main.py 41-54: the try block of the JSON branch; every exception raised in
\* it, the 400 of line 45 included, is replaced by 400 "Invalid JSON"
NormalizeJson(body) ==
    IF ~body.parsed THEN HttpError(400, "Invalid JSON")
    ELSE IF body.value.ty # "object" THEN HttpError(400, "Invalid JSON")
    ELSE LET obj == body.value.obj IN
         IF "tenant_id" \notin DOMAIN obj \/ "text" \notin DOMAIN obj
         THEN HttpError(400, "Invalid JSON")
         ELSE Normalized([tenant_id |-> obj["tenant_id"],
                          log_id |-> Get(obj, "log_id", "generated-id"),
                          text |-> obj["text"],
                          source |-> "json_upload"])

\* main.py 56-69
NormalizeText(x_tenant_id, body) ==
    IF ~Truthy(x_tenant_id)
    THEN HttpError(400, "X-Tenant-ID header required for text")
    ELSE IF ~body.utf8 THEN HttpError(500, "UnicodeDecodeError")
    ELSE Normalized([tenant_id |-> x_tenant_id,
                     log_id |-> "generated-log-id",
                     text |-> PyStr(body.text),
                     source |-> "text_upload"])

\* main.py 34-72: STEP A
Normalize(sub) ==
    IF "application/json" \in sub.ctype THEN NormalizeJson(sub.body)
    ELSE IF "text/plain" \in sub.ctype THEN NormalizeText(sub.x_tenant_id, sub.body)
    ELSE HttpError(415, "Unsupported Content-Type")

\* main.py 76-77
EncodePayload(payload) == Utf8Encode(JsonDumps(JsonObject(payload)))

Accepted(how) == [status |-> 202, detail |-> "accepted", publish |-> how]

IngestRejected(sub) ==
    /\ ~Normalize(sub).ok
    /\ lastIngest' = [status |-> Normalize(sub).status,
                      detail |-> Normalize(sub).detail, publish |-> "none"]
    /\ UNCHANGED queue

\* main.py 79-84: the broker confirms the publish
IngestPublished(sub) ==
    /\ Normalize(sub).ok
    /\ publisher
    /\ queue' = queue \cup {PushEnvelope(EncodePayload(Normalize(sub).payload))}
    /\ lastIngest' = Accepted("confirmed")

\* the publish failure is answered 500
IngestPublishFailedSurfaced(sub) ==
    /\ Normalize(sub).ok
    /\ publisher
    /\ lastIngest' = [status |-> 500, detail |-> "Publishing failed", publish |-> "failed"]
    /\ UNCHANGED queue

\* main.py 85-87: publish raises; the exception is printed
IngestPublishFailed(sub) ==
    /\ Normalize(sub).ok
    /\ publisher
    /\ lastIngest' = Accepted("failed")
    /\ UNCHANGED queue

\* main.py 88-89: no publisher client
IngestNoPublisher(sub) ==
    /\ Normalize(sub).ok
    /\ ~publisher
    /\ lastIngest' = Accepted("absent")
    /\ UNCHANGED queue

Ingest(sub) ==
    /\ nRequests < MaxRequests
    /\ nRequests' = nRequests + 1
    /\ \/ IngestRejected(sub)
       \/ IngestPublished(sub)
       \/ IngestPublishFailed(sub)
       \/ IngestNoPublisher(sub)
    /\ UNCHANGED <<publisher, db, inflight, attempted, store, clock, lastDelivery>>

\* ------------------------------------------------ process_pubsub_message
\* Pub/Sub push: a response with a success status acknowledges the message;
\* any other response, or none, leaves it to be redelivered.
Acknowledges(status) == status \in {200, 201, 202, 204}

\* envelopes that do not come from ingest_data
ForeignEnvelopes ==
    { [kind |-> "no_message"],
      [kind |-> "no_data"],
      [kind |-> "message", data |-> BadBase64],
      [kind |-> "message", data |-> Base64Encode(BadUtf8Bytes)],
      [kind |-> "message", data |-> Base64Encode(Utf8Encode(BadJsonText))],
      [kind |-> "message", data |-> Base64Encode(Utf8Encode(JsonDumps(JsonArray)))],
      PushEnvelope(EncodePayload(Field("tenant_id", {"A"})
                                 @@ Field("text", {PyStr(<<"a", "sz">>)}))) }

\* a message reaches the push subscription from somewhere else than ingest_data
ForeignPublish(env) ==
    /\ nRequests < MaxRequests
    /\ queue' = queue \cup {env}
    /\ nRequests' = nRequests + 1
    /\ UNCHANGED <<publisher, db, inflight, attempted, store, clock, lastIngest,
                   lastDelivery>>

Raised(what) == [ok |-> FALSE, error |-> what]
Decoded(value) == [ok |-> TRUE, value |-> value]

\* worker.py 34-39: the body of the try block
DecodeMessage(env) ==
    IF env.kind # "message" THEN Raised("HTTPException 400: Invalid message format")
    ELSE IF ~env.data.b64 THEN Raised("binascii.Error")
    ELSE IF ~env.data.bytes.utf8 THEN Raised("UnicodeDecodeError")
    ELSE IF ~env.data.bytes.text.json THEN Raised("JSONDecodeError")
    ELSE Decoded(env.data.bytes.text.value)

\* worker.py 48
TextContent(obj) == Get(obj, "text", PyStr(<<>>))

\* one collection for every tenant
DocRefFlat(tenant_id, log_id) == <<"tenants", "all", "processed_logs", log_id>>

\* worker.py 58-61
DocRef(tenant_id, log_id) == <<"tenants", tenant_id, "processed_logs", log_id>>

\* char_count taken from the transformed text
DocFieldsCountUpper(obj, now) ==
    [source |-> Get(obj, "source", None),
     original_text |-> TextContent(obj).chars,
     modified_data |-> Upper(TextContent(obj).chars),
     processed_at |-> now,
     char_count |-> Len(Upper(TextContent(obj).chars))]

\* worker.py 63-69: the fields handed to doc_ref.set
DocFields(obj, now) ==
    [source |-> Get(obj, "source", None),
     original_text |-> TextContent(obj).chars,
     modified_data |-> Upper(TextContent(obj).chars),
     processed_at |-> now,
     char_count |-> Len(TextContent(obj).chars)]

\* a write that adds a document beside the one already at the path
StoreAdd(st, path, fields) ==
    IF path \in DOMAIN st THEN (Append(path, "copy") :> fields) @@ st
    ELSE (path :> fields) @@ st

\* a write that updates the fields one by one and leaves original_text of a
\* document already at the path
StoreMerge(st, path, fields) ==
    IF path \in DOMAIN st
    THEN (path :> [fields EXCEPT !.original_text = st[path].original_text]) @@ st
    ELSE (path :> fields) @@ st

\* doc_ref.set(fields): the document at the path is replaced
StoreSet(st, path, fields) == (path :> fields) @@ st

\* the response of an attempt reaches the broker
Respond(att, status, body, wrote) ==
    /\ lastDelivery' = [env |-> att.env, status |-> status, body |-> body,
                        wrote |-> wrote, first |-> att.first,
                        rewrote |-> wrote /\ lastDelivery.wrote
                                          /\ lastDelivery.env = att.env]
    /\ queue' = IF Acknowledges(status) THEN queue \ {att.env} ELSE queue

Attempt(env) == [env |-> env, first |-> env \notin attempted]

\* the missing message field is answered like a decode error
BeginNoMessageDrained(env) ==
    /\ env.kind = "no_message"
    /\ Respond(Attempt(env), 200, "error", FALSE)
    /\ UNCHANGED <<inflight, store, clock>>

\* worker.py 27-28
BeginNoMessage(env) ==
    /\ env.kind = "no_message"
    /\ Respond(Attempt(env), 400, "Bad Request: no message field", FALSE)
    /\ UNCHANGED <<inflight, store, clock>>

\* worker.py 33-42: whatever the try block raises is printed and answered 200
BeginDecodeError(env) ==
    /\ env.kind # "no_message"
    /\ ~DecodeMessage(env).ok
    /\ Respond(Attempt(env), 200, "error", FALSE)
    /\ UNCHANGED <<inflight, store, clock>>

\* worker.py 44: payload.get on a value that is not a dict raises AttributeError
BeginNotMapping(env) ==
    /\ env.kind # "no_message"
    /\ DecodeMessage(env).ok
    /\ DecodeMessage(env).value.ty # "object"
    /\ Respond(Attempt(env), 500, "AttributeError", FALSE)
    /\ UNCHANGED <<inflight, store, clock>>

\* worker.py 49: len() of a text that is not a string raises TypeError
BeginTextNotSized(env) ==
    /\ env.kind # "no_message"
    /\ DecodeMessage(env).ok
    /\ DecodeMessage(env).value.ty = "object"
    /\ ~TextContent(DecodeMessage(env).value.obj).isStr
    /\ Respond(Attempt(env), 500, "TypeError", FALSE)
    /\ UNCHANGED <<inflight, store, clock>>

\* the record is written before the delay instead of after it
BeginSleepAfterWrite(env) ==
    /\ env.kind # "no_message"
    /\ DecodeMessage(env).ok
    /\ DecodeMessage(env).value.ty = "object"
    /\ TextContent(DecodeMessage(env).value.obj).isStr
    /\ Attempt(env) \notin inflight
    /\ inflight' = inflight \cup {Attempt(env)}
    /\ clock' = clock + 1
    /\ store' = StoreSet(store,
                         DocRef(Get(DecodeMessage(env).value.obj, "tenant_id", None),
                                Get(DecodeMessage(env).value.obj, "log_id", None)),
                         DocFields(DecodeMessage(env).value.obj, clock'))
    /\ UNCHANGED <<queue, lastDelivery>>

\* worker.py 50: the attempt enters time.sleep
BeginSleep(env) ==
    /\ env.kind # "no_message"
    /\ DecodeMessage(env).ok
    /\ DecodeMessage(env).value.ty = "object"
    /\ TextContent(DecodeMessage(env).value.obj).isStr
    /\ Attempt(env) \notin inflight
    /\ inflight' = inflight \cup {Attempt(env)}
    /\ UNCHANGED <<queue, lastDelivery, store, clock>>

\* worker.py 25-50: the broker pushes a message it holds
Begin(env) ==
    /\ env \in queue
    /\ \/ BeginNoMessage(env)
       \/ BeginDecodeError(env)
       \/ BeginNotMapping(env)
       \/ BeginTextNotSized(env)
       \/ BeginSleep(env)
    /\ attempted' = attempted \cup {env}
    /\ UNCHANGED <<publisher, db, nRequests, lastIngest>>

Payload(att) == DecodeMessage(att.env).value.obj

\* the store client is not looked at
WillWriteNoClientTest(obj) ==
    Truthy(Get(obj, "tenant_id", None)) /\ Truthy(Get(obj, "log_id", None))

\* the log_id is not looked at
WillWriteTenantOnly(obj) ==
    db /\ Truthy(Get(obj, "tenant_id", None))

\* worker.py 57
WillWrite(obj) ==
    db /\ Truthy(Get(obj, "tenant_id", None)) /\ Truthy(Get(obj, "log_id", None))

\* worker.py 57-70, 74: the write succeeds
FinishWrite(att) ==
    /\ WillWrite(Payload(att))
    /\ clock' = clock + 1
    /\ store' = StoreSet(store,
                         DocRef(Get(Payload(att), "tenant_id", None),
                                Get(Payload(att), "log_id", None)),
                         DocFields(Payload(att), clock'))
    /\ Respond(att, 200, "success", TRUE)

\* the exception of doc_ref.set is caught and the handler returns as usual
FinishStoreErrorSwallowed(att) ==
    /\ WillWrite(Payload(att))
    /\ Respond(att, 200, "success", FALSE)
    /\ UNCHANGED <<store, clock>>

\* worker.py 63: doc_ref.set raises (the store cannot be reached)
FinishStoreError(att) ==
    /\ WillWrite(Payload(att))
    /\ Respond(att, 500, "StoreError", FALSE)
    /\ UNCHANGED <<store, clock>>

\* worker.py 71-74
FinishNoWrite(att) ==
    /\ ~WillWrite(Payload(att))
    /\ Respond(att, 200, "success", FALSE)
    /\ UNCHANGED <<store, clock>>

\* worker.py 52-74: the attempt wakes up
Finish(att) ==
    /\ att \in inflight
    /\ inflight' = inflight \ {att}
    /\ \/ FinishWrite(att)
       \/ FinishStoreError(att)
       \/ FinishNoWrite(att)
    /\ UNCHANGED <<publisher, db, nRequests, attempted, lastIngest>>

\* worker.py 50: the attempt is abandoned during its delay (the instance is
\* stopped, or the request is cancelled); nothing is answered
Abandon(att) ==
    /\ att \in inflight
    /\ inflight' = inflight \ {att}
    /\ UNCHANGED <<publisher, db, queue, nRequests, attempted, store, clock,
                   lastIngest, lastDelivery>>

Next ==
    \/ \E sub \in Submissions : Ingest(sub)
    \/ \E env \in ForeignEnvelopes : ForeignPublish(env)
    \/ \E env \in queue : Begin(env)
    \/ \E att \in inflight : Finish(att)
    \/ \E att \in inflight : Abandon(att)

Spec == Init /\ [][Next]_vars

\* ------------------------------------------------------------------ claims
\* the fields of a document other than the store's write timestamp
SansTimestamp(doc) == [f \in DOMAIN doc \ {"processed_at"} |-> doc[f]]

WritePath(env) ==
    DocRef(Get(DecodeMessage(env).value.obj, "tenant_id", None),
           Get(DecodeMessage(env).value.obj, "log_id", None))

\* the attempt that finishes is a second handling of the envelope whose
\* handling was the last to finish, and both write
SecondHandling(att) ==
    /\ lastDelivery.env = att.env
    /\ lastDelivery.wrote
    /\ lastDelivery'.wrote
    /\ Finish(att)

\* C1 as stated: handling the same envelope a second time leaves one record
\* at tenants/{tenant_id}/processed_logs/{log_id} and every field of it, the
\* write timestamp included, has the value the first handling gave it.
C1_AllFieldsIdentical ==
    [][\A att \in inflight : SecondHandling(att) =>
          /\ DOMAIN store' = DOMAIN store
          /\ store'[WritePath(att.env)] = store[WritePath(att.env)]]_vars

\* C1 (amended): handling the same envelope a second time adds no record, and
\* the record at tenants/{tenant_id}/processed_logs/{log_id} keeps every field
\* value except processed_at, which the store assigns again at the second write.
C1_IdempotentOverwrite ==
    [][\A att \in inflight : SecondHandling(att) =>
          /\ WritePath(att.env) \in DOMAIN store
          /\ DOMAIN store' = DOMAIN store
          /\ \A p \in DOMAIN store :
                SansTimestamp(store'[p]) = SansTimestamp(store[p])]_vars

\* C1 witness: the same envelope was handled twice in a row, both handlings
\* wrote, and the store holds one record, with a later timestamp
C1_Witness ==
    /\ lastDelivery.rewrote
    /\ Cardinality(DOMAIN store) = 1
    /\ store[WritePath(lastDelivery.env)].processed_at = 2

\* the envelope carries a record the handler will write: a mapping with
\* non-empty tenant_id and log_id, and the store client is present
WellKeyed(env) ==
    /\ DecodeMessage(env).ok
    /\ DecodeMessage(env).value.ty = "object"
    /\ WillWrite(DecodeMessage(env).value.obj)

\* C2: with the store client present and non-empty tenant_id and log_id, an
\* attempt answers with an acknowledging status only if it wrote the record at
\* (tenant_id, log_id) in that attempt; an attempt that does not write (the
\* store write fails) answers without acknowledging and the message stays with
\* the broker for redelivery.
C2_AckOnlyAfterWrite ==
    [][/\ \A att \in inflight : (att \notin inflight' /\ WellKeyed(att.env) /\ Finish(att)) =>
             /\ Acknowledges(lastDelivery'.status) =>
                   /\ lastDelivery'.wrote
                   /\ WritePath(att.env) \in DOMAIN store'
                   /\ store'[WritePath(att.env)] = DocFields(Payload(att), clock')
             /\ ~lastDelivery'.wrote =>
                   /\ ~Acknowledges(lastDelivery'.status)
                   /\ store' = store
                   /\ queue' = queue
       /\ \A env \in queue : (inflight' = inflight /\ WellKeyed(env) /\ Begin(env)) =>
             /\ ~Acknowledges(lastDelivery'.status)
             /\ queue' = queue]_vars

\* C2 witness: the store write of a well-keyed record failed, the attempt was
\* answered 500 and the message is still with the broker
C2_Witness ==
    /\ lastDelivery.body = "StoreError"
    /\ WellKeyed(lastDelivery.env)
    /\ ~Acknowledges(lastDelivery.status)
    /\ lastDelivery.env \in queue

\* message data that cannot be decoded into a structured record
Poison(env) ==
    /\ env.kind = "message"
    /\ \/ ~DecodeMessage(env).ok
       \/ DecodeMessage(env).value.ty # "object"

\* C3: a delivery whose message data is not decodable into a mapping (invalid
\* base64, UTF-8 or JSON, or JSON that is not a mapping) is answered with an
\* acknowledging response and without a store write.
C3_PoisonDrained ==
    Poison(lastDelivery.env) =>
        Acknowledges(lastDelivery.status) /\ ~lastDelivery.wrote

\* C4: a delivery whose envelope has no message field is answered 400, and the
\* step leaves the store as it was and starts no processing.
C4_NoMessageRejected ==
    [][\A env \in queue : (env.kind = "no_message" /\ Begin(env)) =>
          /\ lastDelivery'.env = env
          /\ lastDelivery'.status = 400
          /\ ~lastDelivery'.wrote
          /\ store' = store
          /\ clock' = clock
          /\ inflight' = inflight]_vars

\* C4 witness: an envelope without message was answered 400 while the store
\* held a record
C4_Witness ==
    /\ lastDelivery.env.kind = "no_message"
    /\ lastDelivery.status = 400
    /\ DOMAIN store # {}

\* the paths whose document differs between two stores
Changed(st1, st2) ==
    {p \in DOMAIN st1 \cup DOMAIN st2 :
        ~(p \in DOMAIN st1 /\ p \in DOMAIN st2 /\ st1[p] = st2[p])}

TenantOf(att) == Get(Payload(att), "tenant_id", None)

\* C5: handling a record with tenant_id = A changes only documents whose path
\* is tenants/A/processed_logs/{log_id}; every document under another tenant's
\* namespace is left as it was, and no other step changes the store.
C5_TenantIsolation ==
    [][/\ \A att \in inflight : (att \notin inflight' /\ Finish(att)) =>
             \A p \in Changed(store, store') :
                 /\ Len(p) = 4
                 /\ p[1] = "tenants" /\ p[2] = TenantOf(att) /\ p[3] = "processed_logs"
       /\ (\A att \in inflight : att \in inflight' \/ ~Finish(att)) => store' = store]_vars

\* C5 witness: a record of tenant A was just written while tenant B's
\* namespace holds a record
C5_Witness ==
    /\ lastDelivery.wrote
    /\ WritePath(lastDelivery.env)[2] = "A"
    /\ \E p \in DOMAIN store : p[2] = "B"

\* the sentinel in a record's text that asks for the single crash
FaultMarker == "!"

HasMarker(env) ==
    /\ DecodeMessage(env).ok
    /\ DecodeMessage(env).value.ty = "object"
    /\ TextContent(DecodeMessage(env).value.obj).isStr
    /\ \E i \in DOMAIN TextContent(DecodeMessage(env).value.obj).chars :
          TextContent(DecodeMessage(env).value.obj).chars[i] = FaultMarker

\* C6: the first delivery attempt of a record whose text contains the
\* fault-injection marker crashes: it is answered with an error and writes
\* nothing (the redelivery then persists the record).
C6_FirstAttemptCrashes ==
    (HasMarker(lastDelivery.env) /\ WellKeyed(lastDelivery.env) /\ lastDelivery.first) =>
        ~Acknowledges(lastDelivery.status) /\ ~lastDelivery.wrote

\* the envelope the broker pushes for an accepted submission
IngestEnvelope(sub) == PushEnvelope(EncodePayload(Normalize(sub).payload))

IngestEnvelopes == {IngestEnvelope(sub) : sub \in {x \in Submissions : Normalize(x).ok}}

\* a JSON submission that is a mapping with tenant_id and text
JsonWithFields(sub) ==
    /\ "application/json" \in sub.ctype
    /\ sub.body.parsed
    /\ sub.body.value.ty = "object"
    /\ {"tenant_id", "text"} \subseteq DOMAIN sub.body.value.obj

\* C7 as stated: the stored record of a valid JSON submission has a field
\* named modified_text holding the upper-cased text.
C7_ModifiedTextField ==
    \A sub \in Submissions :
        (JsonWithFields(sub) /\ lastDelivery.env = IngestEnvelope(sub) /\ lastDelivery.wrote) =>
            LET doc == store[WritePath(lastDelivery.env)] IN
                /\ "modified_text" \in DOMAIN doc
                /\ doc["modified_text"] = Upper(sub.body.value.obj["text"].chars)

\* C7 (amended): once the message of a valid JSON submission has been
\* persisted, the record at (tenant_id, log_id) has char_count = len(text),
\* original_text = text, source = "json_upload", and the upper-cased text in
\* the field named modified_data.
C7_StoredRecord ==
    \A sub \in Submissions :
        (JsonWithFields(sub) /\ lastDelivery.env = IngestEnvelope(sub) /\ lastDelivery.wrote) =>
            LET doc == store[DocRef(sub.body.value.obj["tenant_id"],
                                    Get(sub.body.value.obj, "log_id", "generated-id"))]
                text == sub.body.value.obj["text"].chars
            IN  /\ doc.char_count = Len(text)
                /\ doc.original_text = text
                /\ doc.source = "json_upload"
                /\ "modified_data" \in DOMAIN doc
                /\ doc["modified_data"] = Upper(text)

\* C7 witness: a JSON submission's record is stored whose upper-cased text is
\* longer than the text
C7_Witness ==
    \E sub \in Submissions :
        /\ JsonWithFields(sub)
        /\ lastDelivery.env = IngestEnvelope(sub)
        /\ lastDelivery.wrote
        /\ store[WritePath(lastDelivery.env)].char_count = 2
        /\ Len(store[WritePath(lastDelivery.env)].modified_data) = 3

\* the submissions the validation refuses
JsonRefused(sub) == "application/json" \in sub.ctype /\ ~JsonWithFields(sub)
TextWithoutTenant(sub) ==
    /\ "application/json" \notin sub.ctype
    /\ "text/plain" \in sub.ctype
    /\ sub.x_tenant_id = None
OtherCategory(sub) ==
    "application/json" \notin sub.ctype /\ "text/plain" \notin sub.ctype

\* C8: a JSON submission that is no mapping or lacks tenant_id or text is
\* answered 400, a plain-text submission without the tenant header 400, any
\* other content category 415, and none of them publishes a message.
C8_RefusedWithoutPublish ==
    [][/\ \A sub \in Submissions :
             (/\ nRequests' # nRequests
              /\ JsonRefused(sub) \/ TextWithoutTenant(sub)
              /\ Ingest(sub)) =>
                lastIngest'.status = 400 /\ lastIngest'.publish = "none" /\ queue' = queue
       /\ \A sub \in Submissions :
             (nRequests' # nRequests /\ OtherCategory(sub) /\ Ingest(sub)) =>
                lastIngest'.status = 415 /\ lastIngest'.publish = "none" /\ queue' = queue]_vars

\* C8 witness: a submission was refused with 415 after a message had been
\* published, and the broker holds that one message only
C8_Witness ==
    /\ lastIngest.status = 415
    /\ nRequests = 2
    /\ Cardinality(queue) = 1

\* C9: a submission that passes normalization is answered 202 "accepted"
\* whether the publish was confirmed, failed, or there is no publisher client.
C9_AlwaysAccepted ==
    [][\A sub \in Submissions :
          (nRequests' # nRequests /\ Normalize(sub).ok /\ Ingest(sub)) =>
          /\ lastIngest'.status = 202
          /\ lastIngest'.detail = "accepted"
          /\ lastIngest'.publish \in {"confirmed", "failed", "absent"}]_vars

\* C9 witness: the publish call failed and the caller was answered 202
C9_Witness ==
    /\ lastIngest.publish = "failed"
    /\ lastIngest.status = 202
    /\ queue = {}

\* C10: when a message published by ingest_data is acknowledged, the store
\* holds the record of its (tenant_id, log_id).
C10_AckedIsStored ==
    (db /\ lastDelivery.env \in IngestEnvelopes /\ Acknowledges(lastDelivery.status)) =>
        WritePath(lastDelivery.env) \in DOMAIN store

\* an envelope without the message wrapper, or whose message has no data body
Malformed(env) == env.kind \in {"no_message", "no_data"}

\* C11: every delivery of a malformed envelope (no message field, or a message
\* without a data body) is answered with an acknowledging response and without
\* a store write, so that the broker does not deliver it again.
C11_MalformedDrained ==
    Malformed(lastDelivery.env) =>
        Acknowledges(lastDelivery.status) /\ ~lastDelivery.wrote

\* the LogRecord constraints on a decoded record
IsLogRecord(obj) ==
    /\ {"tenant_id", "log_id", "text", "source"} \subseteq DOMAIN obj
    /\ Truthy(obj["tenant_id"])
    /\ obj["log_id"] # None
    /\ obj["text"].isStr
    /\ obj["source"] \in {"json_upload", "text_upload"}

\* C12: every record that ingest_data has handed to the broker has a non-empty
\* tenant_id, a log_id, a text that is a string, and source json_upload or
\* text_upload.
C12_PublishedAreLogRecords ==
    \A env \in queue \cap IngestEnvelopes :
        IsLogRecord(DecodeMessage(env).value.obj)

\* the envelope carries a mapping whose tenant_id or log_id is empty or absent
MissingIdentifier(env) ==
    /\ DecodeMessage(env).ok
    /\ DecodeMessage(env).value.ty = "object"
    /\ \/ ~Truthy(Get(DecodeMessage(env).value.obj, "tenant_id", None))
       \/ ~Truthy(Get(DecodeMessage(env).value.obj, "log_id", None))

\* C13: an attempt that reaches the identifier test with a record whose
\* tenant_id or log_id is empty or absent writes nothing to the store and is
\* answered with an acknowledging response, after which the broker no longer
\* holds the message.
C13_MissingIdentifierAcked ==
    [][\A att \in inflight :
          (att \notin inflight' /\ MissingIdentifier(att.env) /\ Finish(att)) =>
              /\ store' = store
              /\ clock' = clock
              /\ ~lastDelivery'.wrote
              /\ Acknowledges(lastDelivery'.status)
              /\ att.env \notin queue']_vars

\* C13 witness: with the store client present and a record stored, a record
\* without log_id was acknowledged unwritten and has left the broker
C13_Witness ==
    /\ db
    /\ DOMAIN store # {}
    /\ MissingIdentifier(lastDelivery.env)
    /\ Truthy(Get(DecodeMessage(lastDelivery.env).value.obj, "tenant_id", None))
    /\ Acknowledges(lastDelivery.status)
    /\ ~lastDelivery.wrote
    /\ lastDelivery.env \notin queue

\* C14: a delivery attempt changes nothing in the store before its delay is
\* over; abandoning an attempt during the delay leaves the store and the
\* broker's messages as they were; and the record an attempt writes is the
\* same, the store's write timestamp aside, whether it is the first attempt or
\* a later one.
C14_SafeToAbandon ==
    [][/\ \A env \in queue : (store' # store \/ clock' # clock) => ~Begin(env)
       /\ \A att \in inflight : (att \notin inflight' /\ Abandon(att)) =>
             store' = store /\ clock' = clock /\ queue' = queue
       /\ \A att \in inflight :
             (att \notin inflight' /\ lastDelivery'.wrote /\ Finish(att)) =>
                 SansTimestamp(store'[WritePath(att.env)])
                     = SansTimestamp(DocFields(Payload(att), 0))]_vars

\* C14 witness: an attempt was abandoned during its delay: a delivery began,
\* none is running, none was ever answered, the store is as it was and the
\* broker still holds the message
C14_Witness ==
    /\ attempted # {}
    /\ inflight = {}
    /\ lastDelivery = NoDelivery
    /\ store = <<>>
    /\ attempted \subseteq queue

\* the envelope carries a record that gets through the processing delay
Processable(env) ==
    /\ DecodeMessage(env).ok
    /\ DecodeMessage(env).value.ty = "object"
    /\ TextContent(DecodeMessage(env).value.obj).isStr

\* C15: in every interleaving of delivery attempts, overlapping ones included,
\* the store holds at most one document per (tenant_id, log_id), and every
\* document is, field for field, what the handler computes from one delivered
\* record with those identifiers at one write.
C15_NoLockNeeded ==
    /\ \A p \in DOMAIN store : \A q \in DOMAIN store :
          (Len(p) = 4 /\ Len(q) = 4 /\ p[2] = q[2] /\ p[4] = q[4]) => p = q
    /\ \A p \in DOMAIN store :
          \E env \in attempted :
              /\ Processable(env)
              /\ WritePath(env) = p
              /\ \E t \in 1..clock : store[p] = DocFields(DecodeMessage(env).value.obj, t)

\* C15 witness: two attempts of one message overlapped: the redelivered one
\* wrote and was answered while the first was still in its delay, then the
\* first wrote too, and the store holds one record
C15_Witness ==
    /\ lastDelivery.first
    /\ lastDelivery.rewrote
    /\ Cardinality(DOMAIN store) = 1
    /\ clock = 2

\* the accepted submissions for which ingest_data publishes the envelope
SubmissionsOf ==
    [env \in IngestEnvelopes |->
        {sub \in Submissions : Normalize(sub).ok /\ IngestEnvelope(sub) = env}]

\* an accepted submission that names no log_id: a JSON mapping without the
\* key, or any plain-text submission
OmitsLogId(sub) ==
    /\ Normalize(sub).ok
    /\ "application/json" \in sub.ctype => "log_id" \notin DOMAIN sub.body.value.obj

Placeholder(sub) ==
    IF "application/json" \in sub.ctype THEN "generated-id" ELSE "generated-log-id"

SubmittedTenant(sub) ==
    IF "application/json" \in sub.ctype THEN sub.body.value.obj["tenant_id"]
    ELSE sub.x_tenant_id

SubmittedText(sub) ==
    IF "application/json" \in sub.ctype THEN sub.body.value.obj["text"].chars
    ELSE sub.body.text

CategorySource(sub) ==
    IF "application/json" \in sub.ctype THEN "json_upload" ELSE "text_upload"

\* the documents of a tenant that come from submissions of sub's category
\* without a log_id of the client's
PlaceholderDocs(sub) ==
    {q \in DOMAIN store : /\ q[2] = SubmittedTenant(sub)
                          /\ q[4] \notin ClientLogIds
                          /\ store[q].source = CategorySource(sub)}

\* C16: a JSON submission without log_id is published with log_id
\* "generated-id" and a plain-text submission with "generated-log-id"; once
\* such a submission has been written, the store holds one document for all
\* submissions of its tenant and category made without log_id, at the
\* placeholder's path, and its content is that of the submission written last.
C16_PlaceholderCollision ==
    /\ \A env \in queue \cap IngestEnvelopes :
          \A sub \in SubmissionsOf[env] : OmitsLogId(sub) =>
              DecodeMessage(env).value.obj["log_id"] = Placeholder(sub)
    /\ (lastDelivery.wrote /\ lastDelivery.env \in IngestEnvelopes) =>
          \A sub \in SubmissionsOf[lastDelivery.env] : OmitsLogId(sub) =>
              LET p == DocRef(SubmittedTenant(sub), Placeholder(sub)) IN
                  /\ PlaceholderDocs(sub) = {p}
                  /\ store[p].original_text = SubmittedText(sub)
                  /\ store[p].source = CategorySource(sub)

\* C16 witness: two JSON submissions of tenant A with different texts and no
\* log_id were each written once and acknowledged, and the store holds one
\* document, written by the second
C16_Witness ==
    /\ clock = 2
    /\ queue = {}
    /\ inflight = {}
    /\ Cardinality(attempted) = 2
    /\ \A env \in attempted : /\ env \in IngestEnvelopes
                              /\ WritePath(env) = DocRef("A", "generated-id")
    /\ lastDelivery.wrote
    /\ ~lastDelivery.rewrote
    /\ Cardinality(DOMAIN store) = 1
    /\ store[DocRef("A", "generated-id")].processed_at = 2

\* a JSON submission whose body names a source of its own
NamesSource(sub) ==
    /\ JsonWithFields(sub)
    /\ "source" \in DOMAIN sub.body.value.obj

\* the source values that the clients name in their bodies
ClientSources ==
    {sub.body.value.obj["source"] : sub \in {x \in Submissions : NamesSource(x)}}

\* C17: the source of every record published by ingest_data, and of the
\* document stored for it, is json_upload for a JSON submission and
\* text_upload for a plain-text one; a source named in the JSON body is in
\* neither.
C17_ProvenanceByCategory ==
    /\ \A env \in queue \cap IngestEnvelopes :
          /\ \A sub \in SubmissionsOf[env] :
                DecodeMessage(env).value.obj["source"] = CategorySource(sub)
          /\ DecodeMessage(env).value.obj["source"] \notin ClientSources
    /\ (lastDelivery.wrote /\ lastDelivery.env \in IngestEnvelopes) =>
          \A sub \in SubmissionsOf[lastDelivery.env] :
              store[WritePath(lastDelivery.env)].source = CategorySource(sub)
    /\ \A p \in DOMAIN store : store[p].source \notin ClientSources

\* C17 witness: the record of a JSON submission that named a source of its
\* own is stored with source json_upload
C17_Witness ==
    \E sub \in Submissions :
        /\ NamesSource(sub)
        /\ Normalize(sub).ok
        /\ lastDelivery.env = IngestEnvelope(sub)
        /\ lastDelivery.wrote
        /\ store[WritePath(lastDelivery.env)].source = "json_upload"

\* C18: while the store client is absent no step changes the store; the
\* delivery of a record that decodes to a mapping with a string text goes
\* through the delay unanswered, and when it wakes it is answered 200
\* "success" without a write, after which the broker no longer holds it.
C18_DegradedWithoutStore ==
    [][~db =>
          /\ store' = store
          /\ clock' = clock
          /\ \A env \in queue : (Processable(env) /\ Begin(env)) =>
                lastDelivery' = lastDelivery /\ queue' = queue
          /\ \A att \in inflight : (att \notin inflight' /\ Finish(att)) =>
                /\ lastDelivery'.status = 200
                /\ lastDelivery'.body = "success"
                /\ ~lastDelivery'.wrote
                /\ att.env \notin queue']_vars

\* C18 witness: without a store client, a record with tenant_id and log_id was
\* answered 200 "success", nothing was written and the broker has let go of it
C18_Witness ==
    /\ ~db
    /\ lastDelivery.env \in IngestEnvelopes
    /\ Truthy(Get(DecodeMessage(lastDelivery.env).value.obj, "tenant_id", None))
    /\ lastDelivery.status = 200
    /\ lastDelivery.body = "success"
    /\ ~lastDelivery.wrote
    /\ lastDelivery.env \notin queue
    /\ store = <<>>
====
